---- MODULE Spec2Model ----
\* Persistent vector (bit-partitioned trie with tail buffer), vector views and
\* the hash-bucket map built on the vector, modelled over an explicit heap:
\*   nodes  - every Go slice backing array ever allocated (leaves, tails,
\*            internal trie nodes, map buckets), addressed by position;
\*   vecs   - every Vector struct, views - every VectorSlice struct,
\*   maps   - every Map struct.
\* A handle is an address into one of these heaps, so sharing, copying and
\* in-place writes of the code are visible in the model.
EXTENDS Integers, Sequences, FiniteSets, TLC

\* ---------------------------------------------------------------- constants
shiftSize == 5
nodeSize == 32
\* Go's nil (nil interface, nil slice) and the zero value of the element type.
Nil == 0

\* ------------------------------------------------------------------- bounds
\* Number of state-changing calls explored after construction.
MaxOps == 2
\* Element values are 1..ValMod (0 is kept for the zero value).
ValMod == 5
\* Map keys are 1..MaxKey, map values 1..MaxVal.
MaxKey == 10
MaxVal == 2
\* Number of processes that call concurrently.
MaxProcs == 2

VARIABLES nodes, vecs, views, maps, pubV, pubM, cur, sv, m, ref, last, steps, procs
vars == <<nodes, vecs, views, maps, pubV, pubM, cur, sv, m, ref, last, steps, procs>>
\* What the calls on vectors and views leave alone, and what the calls on maps do
\* (procs: the calls in progress of the concurrent client).
mapSide == <<maps, pubM, m, ref, procs>>
vecSide == <<views, pubV, cur, sv>>

\* ------------------------------------------------------------ uint helpers
Shr(x, n) == x \div (2 ^ n)
Shl(x, n) == x * (2 ^ n)
\* x & shiftBitMask
Mask(x) == x % nodeSize
uintMin(a, b) == IF a < b THEN a ELSE b

\* ------------------------------------------------------------------- heap
\* H = [nodes, vecs, maps, ok, log]; ok = FALSE once the running call has
\* panicked; log holds the allocations and writes of the running call in the
\* order it made them.
MkHeap(N, V, M) == [nodes |-> N, vecs |-> V, maps |-> M, ok |-> TRUE, log |-> <<>>]
\* kind: "node" (a slice array is made with content val), "entry" (element
\* idx of an array is written), "grow" (append within the capacity of an
\* array), "vec" and "map" (a struct is made), "tail" (the tail field of a
\* Vector struct is written).
Event(kind, addr, idx, val) == [kind |-> kind, addr |-> addr, idx |-> idx, val |-> val]
NewAddr(H) == Len(H.nodes) + 1
AllocNode(H, arr) ==
  [H EXCEPT !.nodes = Append(@, arr), !.log = Append(@, Event("node", NewAddr(H), 0, arr))]
NewVecAddr(H) == Len(H.vecs) + 1
AllocVec(H, v) ==
  [H EXCEPT !.vecs = Append(@, v), !.log = Append(@, Event("vec", NewVecAddr(H), 0, v))]
NewMapAddr(H) == Len(H.maps) + 1
AllocMap(H, mp) ==
  [H EXCEPT !.maps = Append(@, mp), !.log = Append(@, Event("map", NewMapAddr(H), 0, mp))]
\* arr[idx] = val, append(arr, val) with room in arr, and v.tail = tail.
SetEntry(H, addr, idx, val) ==
  [H EXCEPT !.nodes[addr][idx] = val, !.log = Append(@, Event("entry", addr, idx, val))]
GrowNode(H, addr, val) ==
  [H EXCEPT !.nodes[addr] = Append(@, val), !.log = Append(@, Event("grow", addr, 0, val))]
SetTail(H, va, tail) ==
  [H EXCEPT !.vecs[va].tail = tail, !.log = Append(@, Event("tail", va, 0, tail))]
Panic(H) == [H EXCEPT !.ok = FALSE]
\* make([]X, n) followed by copy(ret, src): min(n, len(src)) entries copied,
\* the rest keep the zero value.
Make(n) == SubSeq([k \in 1..n |-> Nil], 1, n)
MakeCopy(n, src) == SubSeq(src, 1, uintMin(n, Len(src))) \o Make(n - uintMin(n, Len(src)))

\* ----------------------------------------------------------------- Vector
MkVector(root, tail, len, shift) ==
  [root |-> root, tail |-> tail, len |-> len, shift |-> shift]

tailOffset(v) ==
  IF v.len < nodeSize THEN 0
  ELSE Shl(Shr(v.len - 1, shiftSize), shiftSize)

RECURSIVE newPath(_, _, _)
newPath(H, shift, node) ==
  IF shift = 0 THEN [h |-> H, r |-> node]
  ELSE newPath(AllocNode(H, <<node>>), shift - shiftSize, NewAddr(H))

\* [h, r] of a call that panicked.
Failed(H) == [h |-> Panic(H), r |-> Nil]

\* ret[subIdx] = sub.r, where sub is the outcome of building the child; a
\* panic below is passed on.
WithChild(sub, ret, subIdx) ==
  IF ~sub.h.ok THEN [h |-> sub.h, r |-> Nil]
  ELSE [h |-> SetEntry(sub.h, ret, subIdx + 1, sub.r), r |-> ret]

\* &Vector{root: sub.r, tail: tail, len: len, shift: shift}
WithRoot(sub, tail, len, shift) ==
  IF ~sub.h.ok THEN [h |-> sub.h, r |-> Nil]
  ELSE [h |-> AllocVec(sub.h, MkVector(sub.r, tail, len, shift)), r |-> NewVecAddr(sub.h)]

\* A faulty pushTail, for comparison: the leaf is put into the parent's own
\* array instead of a copy of it.
RECURSIVE pushTailInPlace(_, _, _, _, _)
pushTailInPlace(H, v, level, parent, tailNode) ==
  IF parent = Nil THEN Failed(H)
  ELSE
    LET subIdx == Mask(Shr(v.len - 1, level))
        parentNode == H.nodes[parent]
        H1 == AllocNode(H, MakeCopy(subIdx + 1, parentNode))
    IN IF level = shiftSize
       THEN [h |-> IF subIdx < Len(parentNode)
                   THEN SetEntry(H, parent, subIdx + 1, tailNode)
                   ELSE GrowNode(H, parent, tailNode),
             r |-> parent]
       ELSE WithChild(IF subIdx < Len(parentNode)
                        THEN pushTailInPlace(H1, v, level - shiftSize,
                                             parentNode[subIdx + 1], tailNode)
                        ELSE newPath(H1, level - shiftSize, tailNode),
                      NewAddr(H), subIdx)

RECURSIVE pushTail(_, _, _, _, _)
pushTail(H, v, level, parent, tailNode) ==
  IF parent = Nil THEN Failed(H)   \* parent.([]commonNode) on nil
  ELSE
    LET subIdx == Mask(Shr(v.len - 1, level))
        parentNode == H.nodes[parent]
        H1 == AllocNode(H, MakeCopy(subIdx + 1, parentNode))
    IN WithChild(IF level = shiftSize THEN [h |-> H1, r |-> tailNode]
                 ELSE IF subIdx < Len(parentNode)
                   THEN pushTail(H1, v, level - shiftSize, parentNode[subIdx + 1], tailNode)
                   ELSE newPath(H1, level - shiftSize, tailNode),
                 NewAddr(H), subIdx)

\* newRoot := []commonNode{v.root, np.r}
NewRoot(np, root) == [h |-> AllocNode(np.h, <<root, np.r>>), r |-> NewAddr(np.h)]

\* A faulty pushLeafNode, for comparison: the length is shifted by v.shift in
\* the root overflow test.
pushLeafNodeShiftByShift(H, va, node) ==
  LET v == H.vecs[va]
  IN IF Shr(v.len, v.shift) > Shl(1, v.shift)
     THEN WithRoot(NewRoot(newPath(H, v.shift, node), v.root),
                   v.tail, v.len, v.shift + shiftSize)
     ELSE WithRoot(pushTail(H, v, v.shift, v.root, node), v.tail, v.len, v.shift)

pushLeafNode(H, va, node) ==
  LET v == H.vecs[va]
  IN IF Shr(v.len, shiftSize) > Shl(1, v.shift)
     THEN WithRoot(NewRoot(newPath(H, v.shift, node), v.root),
                   v.tail, v.len, v.shift + shiftSize)
     ELSE WithRoot(pushTail(H, v, v.shift, v.root, node), v.tail, v.len, v.shift)

\* A faulty AppendBatch, for comparison: the flushed tail is not replaced by an
\* empty one.
AppendBatchKeepTail(pl, full, item, insertOffset) ==
  IF ~pl.h.ok THEN [h |-> pl.h, r |-> Nil, insertOffset |-> insertOffset]
  ELSE
    LET res == pl.h.vecs[pl.r]
        tailLen == IF full THEN 0 ELSE res.len - tailOffset(res)
        tailFree == nodeSize - tailLen
        batchLen == uintMin(Len(item) - insertOffset, tailFree)
        newTail == pl.h.nodes[res.tail]
                     \o SubSeq(item, insertOffset + 1, insertOffset + batchLen)
    IN [h |-> AllocVec(AllocNode(pl.h, newTail),
                       MkVector(res.root, NewAddr(pl.h), res.len + batchLen, res.shift)),
        r |-> NewVecAddr(pl.h),
        insertOffset |-> insertOffset + batchLen]

\* Append. The state of its loop is [h, r, insertOffset] with r the variable
\* result. AppendBatch is the rest of one iteration once a full tail has been
\* flushed (pl: the vector after the flush, full: whether there was one).
AppendBatch(pl, full, item, insertOffset) ==
  IF ~pl.h.ok THEN [h |-> pl.h, r |-> Nil, insertOffset |-> insertOffset]
  ELSE
    LET \* result.tail = make([]T, 0): a write to the struct pushLeafNode returned
        H1 == IF full
              THEN SetTail(AllocNode(pl.h, <<>>), pl.r, NewAddr(pl.h))
              ELSE pl.h
        res == H1.vecs[pl.r]
        tailLen == IF full THEN 0 ELSE res.len - tailOffset(res)
        tailFree == nodeSize - tailLen
        batchLen == uintMin(Len(item) - insertOffset, tailFree)
        newTail == H1.nodes[res.tail]
                     \o SubSeq(item, insertOffset + 1, insertOffset + batchLen)
    IN [h |-> AllocVec(AllocNode(H1, newTail),
                       MkVector(res.root, NewAddr(H1), res.len + batchLen, res.shift)),
        r |-> NewVecAddr(H1),
        insertOffset |-> insertOffset + batchLen]

\* One iteration of the loop.
AppendIter(st, item) ==
  LET r0 == st.h.vecs[st.r]
      full == nodeSize - (r0.len - tailOffset(r0)) = 0
  IN AppendBatch(IF full THEN pushLeafNode(st.h, st.r, r0.tail) ELSE [h |-> st.h, r |-> st.r],
                 full, item, st.insertOffset)

\* The loop, cut after n iterations: the first half of them, then the rest.
\* An iteration takes at least one item, so the loop has ended after
\* Len(item) of them.
RECURSIVE AppendLoop(_, _, _)
AppendLoop(st, item, n) ==
  IF ~st.h.ok \/ ~(st.insertOffset < Len(item)) THEN st
  ELSE IF n <= 1 THEN AppendIter(st, item)
  ELSE AppendLoop(AppendLoop(st, item, n \div 2), item, n - n \div 2)

AppendRet(st) == [h |-> st.h, r |-> st.r]

VAppend(H, va, item) ==
  AppendRet(AppendLoop([h |-> H, r |-> va, insertOffset |-> 0], item, Len(item)))

\* emptyCommonNode lives at address 1 of every heap.
emptyCommonNode == 1
EmptyHeap == MkHeap(<< <<>> >>, <<>>, <<>>)

NewVector(H, items) ==
  LET H1 == AllocNode(H, <<>>)
      H2 == AllocVec(H1, MkVector(emptyCommonNode, NewAddr(H), 0, shiftSize))
  IN VAppend(H2, NewVecAddr(H1), items)

VLen(H, va) == H.vecs[va].len

\* The descent of sliceFor from node at level (Nil when it meets nil or runs
\* past a node, where the code panics).
RECURSIVE descend(_, _, _, _)
descend(H, node, level, i) ==
  IF level <= 0 THEN node
  ELSE IF node = Nil THEN Nil
  ELSE LET ix == Mask(Shr(i, level)) + 1
       IN IF ix > Len(H.nodes[node]) THEN Nil
          ELSE descend(H, H.nodes[node][ix], level - shiftSize, i)

\* The leaf or tail array holding index i.
sliceFor(H, v, i) ==
  IF i >= tailOffset(v) THEN v.tail
  ELSE descend(H, v.root, v.shift, i)

VGet(H, va, i) ==
  LET v == H.vecs[va]
  IN IF i < 0 \/ i >= v.len THEN [ok |-> FALSE, val |-> Nil]
     ELSE LET s == sliceFor(H, v, i)
          IN IF s = Nil \/ Mask(i) + 1 > Len(H.nodes[s]) THEN [ok |-> FALSE, val |-> Nil]
             ELSE [ok |-> TRUE, val |-> H.nodes[s][Mask(i) + 1]]

\* A faulty doAssoc, for comparison: the leaf is made but not copied into.
RECURSIVE doAssocNoLeafCopy(_, _, _, _, _)
doAssocNoLeafCopy(H, level, node, i, item) ==
  IF node = Nil THEN Failed(H)
  ELSE IF level = 0
    THEN [h |-> AllocNode(H, [Make(nodeSize) EXCEPT ![Mask(i) + 1] = item]),
          r |-> NewAddr(H)]
    ELSE LET ret == MakeCopy(nodeSize, H.nodes[node])
             subidx == Mask(Shr(i, level))
         IN WithChild(doAssocNoLeafCopy(AllocNode(H, ret), level - shiftSize,
                                        ret[subidx + 1], i, item),
                      NewAddr(H), subidx)

RECURSIVE doAssoc(_, _, _, _, _)
doAssoc(H, level, node, i, item) ==
  IF node = Nil THEN Failed(H)
  ELSE IF level = 0
    THEN [h |-> AllocNode(H, [MakeCopy(nodeSize, H.nodes[node]) EXCEPT ![Mask(i) + 1] = item]),
          r |-> NewAddr(H)]
    ELSE LET ret == MakeCopy(nodeSize, H.nodes[node])
             subidx == Mask(Shr(i, level))
         IN WithChild(doAssoc(AllocNode(H, ret), level - shiftSize, ret[subidx + 1], i, item),
                      NewAddr(H), subidx)

\* A faulty Set, for comparison: an index in the tail is written in the
\* receiver's own tail array.
VSetSharedTail(H, va, i, item) ==
  LET v == H.vecs[va]
  IN IF i < 0 \/ i >= v.len THEN Failed(H)
     ELSE IF i >= tailOffset(v)
       THEN WithRoot([h |-> SetEntry(H, v.tail, Mask(i) + 1, item), r |-> v.root],
                     v.tail, v.len, v.shift)
       ELSE WithRoot(doAssoc(H, v.shift, v.root, i, item), v.tail, v.len, v.shift)

VSet(H, va, i, item) ==
  LET v == H.vecs[va]
  IN IF i < 0 \/ i >= v.len THEN Failed(H)
     ELSE IF i >= tailOffset(v)
       THEN LET newTail == [MakeCopy(Len(H.nodes[v.tail]), H.nodes[v.tail])
                              EXCEPT ![Mask(i) + 1] = item]
            IN WithRoot([h |-> AllocNode(H, newTail), r |-> v.root],
                        NewAddr(H), v.len, v.shift)
       ELSE WithRoot(doAssoc(H, v.shift, v.root, i, item), v.tail, v.len, v.shift)

\* Range. The visitor f is [kind, k, calls]: it returns false on its k-th call
\* (k = 0: it never does) and calls holds the arguments of its calls so far.
Visitor(kind, k) == [kind |-> kind, k |-> k, calls |-> <<>>]
\* f(x): [f, go], go being what f returns.
CallF(f, x) == [f |-> [f EXCEPT !.calls = Append(@, x)], go |-> Len(f.calls) + 1 # f.k]

\* The closure Map.Range hands to Vector.Range: f(item.Key, item.Value) for the
\* items of the bucket from position p on, false as soon as f returns false.
RECURSIVE BucketLoop(_, _, _)
BucketNext(c, bucket, p) == IF ~c.go THEN c ELSE BucketLoop(c.f, bucket, p + 1)
BucketLoop(f, bucket, p) ==
  IF p > Len(bucket) THEN [f |-> f, go |-> TRUE]
  ELSE BucketNext(CallF(f, bucket[p]), bucket, p)

\* The function Range is called with, applied to the element x.
Apply(H, f, x) ==
  IF f.kind = "bucket" THEN BucketLoop(f, IF x = Nil THEN <<>> ELSE H.nodes[x], 1)
  ELSE CallF(f, x)

\* The state of the loop of Range: [i, currentNode, f, go, ok]; go = FALSE
\* once f has returned false, ok = FALSE once an index expression has panicked.
RangeStart(i, f) == [i |-> i, currentNode |-> Nil, f |-> f, go |-> TRUE, ok |-> TRUE]
RangeCalled(st, currentNode, c) ==
  [i |-> IF c.go THEN st.i + 1 ELSE st.i, currentNode |-> currentNode,
   f |-> c.f, go |-> c.go, ok |-> TRUE]
\* if !f(currentNode[i & shiftBitMask]) { return }; i++
RangeVisit(H, st, currentNode) ==
  IF currentNode = Nil \/ Mask(st.i) + 1 > Len(H.nodes[currentNode])
  THEN [st EXCEPT !.ok = FALSE]
  ELSE RangeCalled(st, currentNode, Apply(H, st.f, H.nodes[currentNode][Mask(st.i) + 1]))

\* One iteration of the loop of Vector.Range.
VRangeIter(H, v, st) ==
  RangeVisit(H, st, IF Mask(st.i) = 0 THEN sliceFor(H, v, st.i) ELSE st.currentNode)

\* The loop, cut after n iterations: the first half of them, then the rest.
RECURSIVE VRangeLoop(_, _, _, _)
VRangeLoop(H, v, st, n) ==
  IF ~st.ok \/ ~st.go \/ ~(st.i < v.len) THEN st
  ELSE IF n <= 1 THEN VRangeIter(H, v, st)
  ELSE VRangeLoop(H, v, VRangeLoop(H, v, st, n \div 2), n - n \div 2)

\* v.Range(f): the loop state when Range returns.
VRangeRun(H, va, f) == VRangeLoop(H, H.vecs[va], RangeStart(0, f), H.vecs[va].len)

\* Vector.Range with a visitor of elements: the elements passed to it, in
\* call order.
VRange(H, va, k) == VRangeRun(H, va, Visitor("elem", k)).f.calls

\* ------------------------------------------------------------ VectorSlice
\* A faulty assertSliceOk, for comparison: stop is not checked against len.
assertSliceOkNoStop(start, stop, len) ==
  /\ ~(start < 0)
  /\ ~(start > stop)

assertSliceOk(start, stop, len) ==
  /\ ~(start < 0)
  /\ ~(start > stop)
  /\ ~(stop > len)

MkSlice(vector, start, stop) == [vector |-> vector, start |-> start, stop |-> stop]
NoSlice == MkSlice(Nil, 0, 0)

\* Vector.Slice: the view struct it returns (ok = FALSE: assertSliceOk panicked).
VSlice(H, va, start, stop) ==
  IF assertSliceOk(start, stop, VLen(H, va))
  THEN [ok |-> TRUE, s |-> MkSlice(va, start, stop)]
  ELSE [ok |-> FALSE, s |-> NoSlice]

SLen(s) == s.stop - s.start

\* A faulty VectorSlice.Get, for comparison: only the backing vector checks
\* the index.
SGetBacking(H, s, i) == VGet(H, s.vector, s.start + i)

SGet(H, s, i) ==
  IF i < 0 \/ s.start + i >= s.stop THEN [ok |-> FALSE, val |-> Nil]
  ELSE VGet(H, s.vector, s.start + i)

\* vs.r.Slice(start, stop) for the outcome vs of Set.
SliceOf(vs, start, stop) ==
  IF ~vs.h.ok THEN [h |-> vs.h, s |-> NoSlice]
  ELSE IF VSlice(vs.h, vs.r, start, stop).ok
    THEN [h |-> vs.h, s |-> VSlice(vs.h, vs.r, start, stop).s]
    ELSE [h |-> Panic(vs.h), s |-> NoSlice]

SSet(H, s, i, item) ==
  IF i < 0 \/ s.start + i >= s.stop THEN [h |-> Panic(H), s |-> NoSlice]
  ELSE SliceOf(VSet(H, s.vector, s.start + i, item), s.start, s.stop)

\* The Set loop of VectorSlice.Append: [h, r, itemPos] when the loop ends;
\* SAppendSetNext goes on from the outcome vs of one Set.
RECURSIVE SAppendSetLoop(_, _, _, _, _)
SAppendSetNext(vs, s, items, itemPos) ==
  IF ~vs.h.ok THEN [h |-> vs.h, r |-> Nil, itemPos |-> itemPos]
  ELSE SAppendSetLoop(vs.h, s, vs.r, items, itemPos + 1)

SAppendSetLoop(H, s, vector, items, itemPos) ==
  IF s.stop + itemPos < VLen(H, s.vector) /\ itemPos < Len(items)
  THEN SAppendSetNext(VSet(H, vector, s.stop + itemPos, items[itemPos + 1]), s, items, itemPos)
  ELSE [h |-> H, r |-> vector, itemPos |-> itemPos]

\* NewVectorSlice(ap.r, s.start, s.stop + len(items)) for the outcome ap of
\* the Append of the remaining items.
SAppendRet(ap, s, items) ==
  IF ~ap.h.ok THEN [h |-> ap.h, s |-> NoSlice]
  ELSE [h |-> ap.h, s |-> MkSlice(ap.r, s.start, s.stop + Len(items))]

\* The Append of the items the Set loop lp left over.
SAppendRest(lp, s, items) ==
  IF ~lp.h.ok THEN [h |-> lp.h, s |-> NoSlice]
  ELSE SAppendRet(VAppend(lp.h, lp.r, SubSeq(items, lp.itemPos + 1, Len(items))), s, items)

SAppend(H, s, items) == SAppendRest(SAppendSetLoop(H, s, s.vector, items, 0), s, items)

SSlice(s, start, stop) ==
  IF assertSliceOk(start, stop, s.stop - s.start)
  THEN [ok |-> TRUE, s |-> MkSlice(s.vector, s.start + start, s.start + stop)]
  ELSE [ok |-> FALSE, s |-> NoSlice]

\* A faulty VectorSlice.Range, for comparison: the array is fetched at the
\* indices with i & 31 = 0 only, as Vector.Range does.
SRangeIterAligned(H, s, st) ==
  RangeVisit(H, st, IF Mask(st.i) = 0
                    THEN sliceFor(H, H.vecs[s.vector], st.i) ELSE st.currentNode)

\* One iteration of the loop of VectorSlice.Range.
SRangeIter(H, s, st) ==
  RangeVisit(H, st, IF Mask(st.i) = 0 \/ st.i = s.start
                    THEN sliceFor(H, H.vecs[s.vector], st.i) ELSE st.currentNode)

RECURSIVE SRangeLoop(_, _, _, _)
SRangeLoop(H, s, st, n) ==
  IF ~st.ok \/ ~st.go \/ ~(st.i < s.stop) THEN st
  ELSE IF n <= 1 THEN SRangeIter(H, s, st)
  ELSE SRangeLoop(H, s, SRangeLoop(H, s, st, n \div 2), n - n \div 2)

\* s.Range(f): the loop state when Range returns.
SRangeRun(H, s, f) == SRangeLoop(H, s, RangeStart(s.start, f), s.stop - s.start)

\* -------------------------------------------------------------------- Map
upperMapLoadFactor == 8
lowerMapLoadFactor == 2
initialMapLoadFactor == (upperMapLoadFactor + lowerMapLoadFactor) \div 2

nilinterhash(p, h) == 0
\* uint32(nilinterhash(&x, 0)): the conversion leaves the 0 as it is.
genericHash(x) == nilinterhash(x, 0)

MapItem(key, value) == [Key |-> key, Value |-> value]
MkMap(backingVector, len) == [backingVector |-> backingVector, len |-> len]

\* A faulty newPrivateItemBuckets, for comparison: no bucket beyond
\* itemCount / initialMapLoadFactor.
newPrivateItemBucketsNoSpare(itemCount) ==
  [buckets |-> Make(itemCount \div initialMapLoadFactor), length |-> 0]

\* privateItemBuckets: buckets is a local slice of bucket slices (Nil or the
\* address of the bucket's array in nodes), length the number of items added.
newPrivateItemBuckets(itemCount) ==
  [buckets |-> Make(itemCount \div initialMapLoadFactor + 1), length |-> 0]

\* The position of the first item of bucket with this key, 0 when there is none.
KeyIx(bucket, key) ==
  IF \E k \in 1..Len(bucket) : bucket[k].Key = key
  THEN CHOOSE k \in 1..Len(bucket) :
         /\ bucket[k].Key = key
         /\ \A j \in 1..(k - 1) : bucket[j].Key # key
  ELSE 0

\* A faulty AddItem, for comparison: an overwrite counts as a new item.
AddItemCounted(H, b, item) ==
  IF Len(b.buckets) = 0 THEN [h |-> Panic(H), b |-> b]
  ELSE
    LET ix == (genericHash(item.Key) % Len(b.buckets)) + 1
        bucket == b.buckets[ix]
    IN IF bucket # Nil
       THEN LET keyIx == KeyIx(H.nodes[bucket], item.Key)
            IN IF keyIx # 0
               THEN [h |-> SetEntry(H, bucket, keyIx, item),
                     b |-> [b EXCEPT !.length = @ + 1]]
               ELSE [h |-> GrowNode(H, bucket, MapItem(item.Key, item.Value)),
                     b |-> [b EXCEPT !.length = @ + 1]]
       ELSE [h |-> AllocNode(H, <<item>>),
             b |-> [b EXCEPT !.buckets[ix] = NewAddr(H), !.length = @ + 1]]

\* AddItem: [h, b] with the item added to b. The buckets of b are arrays no
\* map refers to yet, and the overwrite and the append write to them in place.
AddItem(H, b, item) ==
  IF Len(b.buckets) = 0 THEN [h |-> Panic(H), b |-> b]    \* % 0
  ELSE
    LET ix == (genericHash(item.Key) % Len(b.buckets)) + 1
        bucket == b.buckets[ix]
    IN IF bucket # Nil
       THEN LET keyIx == KeyIx(H.nodes[bucket], item.Key)
            IN IF keyIx # 0
               THEN [h |-> SetEntry(H, bucket, keyIx, item), b |-> b]
               ELSE [h |-> GrowNode(H, bucket, MapItem(item.Key, item.Value)),
                     b |-> [b EXCEPT !.length = @ + 1]]
       ELSE [h |-> AllocNode(H, <<item>>),
             b |-> [b EXCEPT !.buckets[ix] = NewAddr(H), !.length = @ + 1]]

RECURSIVE AddItems(_, _, _)
AddItemsNext(a, items) == AddItems(a.h, a.b, items)
AddItems(H, b, items) ==
  IF items = <<>> \/ ~H.ok THEN [h |-> H, b |-> b]
  ELSE AddItemsNext(AddItem(H, b, Head(items)), Tail(items))

\* The items of the buckets in the order AddItemsFromMap visits them.
RECURSIVE BucketItems(_, _)
BucketItems(H, buckets) ==
  IF buckets = <<>> THEN <<>>
  ELSE (IF Head(buckets) = Nil THEN <<>> ELSE H.nodes[Head(buckets)])
         \o BucketItems(H, Tail(buckets))

AddItemsFromMap(H, b, ma) ==
  AddItems(H, b, BucketItems(H, VRange(H, H.maps[ma].backingVector, 0)))

\* &Map{backingVector: nv.r, len: len} for the outcome nv of building the
\* backing vector.
MapOf(nv, len) ==
  IF ~nv.h.ok THEN [h |-> nv.h, r |-> Nil]
  ELSE [h |-> AllocMap(nv.h, MkMap(nv.r, len)), r |-> NewMapAddr(nv.h)]

\* &Map{backingVector: NewVector(buckets.buckets...), len: buckets.length}
MapOfBuckets(a) ==
  IF ~a.h.ok THEN [h |-> a.h, r |-> Nil]
  ELSE MapOf(NewVector(a.h, a.b.buckets), a.b.length)

newMap(H, items) == MapOfBuckets(AddItems(H, newPrivateItemBuckets(Len(items)), items))

NewMap(H, items) == newMap(H, items)

\* The native map is given as its entries in the order the range statement
\* yields them (any order; the keys are distinct).
NewMapFromNativeMap(H, entries) ==
  MapOfBuckets(AddItems(H, newPrivateItemBuckets(Len(entries)), entries))

MLen(H, ma) == H.maps[ma].len
\* m.backingVector.Len()
BucketVectorLen(H, ma) == VLen(H, H.maps[ma].backingVector)

\* pos: -1 stands for the panic of % 0.
pos(H, ma, key) ==
  IF VLen(H, H.maps[ma].backingVector) = 0 THEN -1
  ELSE genericHash(key) % VLen(H, H.maps[ma].backingVector)

NotFound == [ok |-> TRUE, value |-> Nil, found |-> FALSE]
LoadPanic == [ok |-> FALSE, value |-> Nil, found |-> FALSE]

MLoad(H, ma, key) ==
  LET g == VGet(H, H.maps[ma].backingVector, pos(H, ma, key))
  IN IF ~g.ok THEN LoadPanic
     ELSE IF g.val # Nil /\ KeyIx(H.nodes[g.val], key) # 0
       THEN [ok |-> TRUE, value |-> H.nodes[g.val][KeyIx(H.nodes[g.val], key)].Value,
             found |-> TRUE]
       ELSE NotFound

\* &Map{backingVector: m.backingVector.Set(pos, newBucket), len: len}
MapWithBucket(H, ma, p, newBucket, len) ==
  MapOf(VSet(H, H.maps[ma].backingVector, p, newBucket), len)

\* buckets.AddItem(item) after AddItemsFromMap (a: its outcome).
AddItemTo(a, item) == IF ~a.h.ok THEN a ELSE AddItem(a.h, a.b, item)

\* A faulty Store, for comparison: the value of a key the bucket holds is
\* written in the receiver's own bucket.
MStoreInPlace(H, ma, key, value) ==
  LET mp == H.maps[ma]
  IN IF mp.len >= VLen(H, mp.backingVector) * upperMapLoadFactor
     THEN MapOfBuckets(AddItemTo(AddItemsFromMap(H, newPrivateItemBuckets(mp.len + 1), ma),
                                 MapItem(key, value)))
     ELSE
       LET p == pos(H, ma, key)
           g == VGet(H, mp.backingVector, p)
       IN IF ~g.ok THEN Failed(H)
          ELSE IF g.val # Nil
            THEN LET bucket == H.nodes[g.val]
                     ix == KeyIx(bucket, key)
                 IN IF ix # 0
                    THEN MapWithBucket(SetEntry(H, g.val, ix, MapItem(key, value)),
                                       ma, p, g.val, mp.len)
                    ELSE MapWithBucket(
                           AllocNode(H, Append(MakeCopy(Len(bucket), bucket), MapItem(key, value))),
                           ma, p, NewAddr(H), mp.len + 1)
            ELSE MapWithBucket(AllocNode(H, <<MapItem(key, value)>>), ma, p, NewAddr(H), mp.len + 1)

MStore(H, ma, key, value) ==
  LET mp == H.maps[ma]
  IN IF mp.len >= VLen(H, mp.backingVector) * upperMapLoadFactor
     THEN MapOfBuckets(AddItemTo(AddItemsFromMap(H, newPrivateItemBuckets(mp.len + 1), ma),
                                 MapItem(key, value)))
     ELSE
       LET p == pos(H, ma, key)
           g == VGet(H, mp.backingVector, p)
       IN IF ~g.ok THEN Failed(H)
          ELSE IF g.val # Nil
            THEN LET bucket == H.nodes[g.val]
                     ix == KeyIx(bucket, key)
                 IN IF ix # 0
                    THEN MapWithBucket(
                           AllocNode(H, [MakeCopy(Len(bucket), bucket) EXCEPT ![ix] = MapItem(key, value)]),
                           ma, p, NewAddr(H), mp.len)
                    ELSE MapWithBucket(
                           AllocNode(H, Append(MakeCopy(Len(bucket), bucket), MapItem(key, value))),
                           ma, p, NewAddr(H), mp.len + 1)
            ELSE MapWithBucket(AllocNode(H, <<MapItem(key, value)>>), ma, p, NewAddr(H), mp.len + 1)

\* The items of bucket whose key is not key, in order.
RECURSIVE WithoutKey(_, _)
WithoutKey(bucket, key) ==
  IF bucket = <<>> THEN <<>>
  ELSE (IF Head(bucket).Key # key THEN <<Head(bucket)>> ELSE <<>>)
         \o WithoutKey(Tail(bucket), key)

\* The rehash of Delete: nm is the map without the key.
Shrink(nm) ==
  IF ~nm.h.ok THEN nm
  ELSE IF /\ VLen(nm.h, nm.h.maps[nm.r].backingVector) > 1
          /\ MLen(nm.h, nm.r) < VLen(nm.h, nm.h.maps[nm.r].backingVector) * lowerMapLoadFactor
    THEN MapOfBuckets(AddItemsFromMap(nm.h, newPrivateItemBuckets(MLen(nm.h, nm.r)), nm.r))
    ELSE nm

\* A faulty Delete, for comparison: a bucket that has lost its last item is
\* stored as an empty bucket.
MDeleteKeepEmpty(H, ma, key) ==
  LET mp == H.maps[ma]
      p == pos(H, ma, key)
      g == VGet(H, mp.backingVector, p)
  IN IF ~g.ok THEN Failed(H)
     ELSE IF g.val # Nil
       THEN LET bucket == H.nodes[g.val]
                kept == WithoutKey(bucket, key)
                removedItemCount == Len(bucket) - Len(kept)
            IN IF removedItemCount = 0 THEN [h |-> AllocNode(H, kept), r |-> ma]
               ELSE Shrink(MapWithBucket(AllocNode(H, kept), ma, p, NewAddr(H),
                                         mp.len - removedItemCount))
       ELSE [h |-> H, r |-> ma]

\* A faulty Delete, for comparison: no early return when nothing was removed.
MDeleteRebuilt(H, ma, key) ==
  LET mp == H.maps[ma]
      p == pos(H, ma, key)
      g == VGet(H, mp.backingVector, p)
  IN IF ~g.ok THEN Failed(H)
     ELSE IF g.val # Nil
       THEN LET bucket == H.nodes[g.val]
                kept == WithoutKey(bucket, key)
                removedItemCount == Len(bucket) - Len(kept)
            IN Shrink(MapWithBucket(AllocNode(H, kept), ma, p,
                                    IF Len(kept) = 0 THEN Nil ELSE NewAddr(H),
                                    mp.len - removedItemCount))
       ELSE [h |-> H, r |-> ma]

MDelete(H, ma, key) ==
  LET mp == H.maps[ma]
      p == pos(H, ma, key)
      g == VGet(H, mp.backingVector, p)
  IN IF ~g.ok THEN Failed(H)
     ELSE IF g.val # Nil
       THEN LET bucket == H.nodes[g.val]
                kept == WithoutKey(bucket, key)
                removedItemCount == Len(bucket) - Len(kept)
            IN IF removedItemCount = 0 THEN [h |-> AllocNode(H, kept), r |-> ma]
               ELSE Shrink(MapWithBucket(AllocNode(H, kept), ma, p,
                                         IF Len(kept) = 0 THEN Nil ELSE NewAddr(H),
                                         mp.len - removedItemCount))
       ELSE [h |-> H, r |-> ma]

\* m.Range(f): the backing vector's Range with the closure over f.
MRangeRun(H, ma, f) == VRangeRun(H, H.maps[ma].backingVector, f)

\* ---------------------------------------------------------- reading a handle
Val(x) == [ok |-> TRUE, val |-> x]
uintMax(a, b) == IF a > b THEN a ELSE b
\* The results of Get(from), ..., Get(to - 1) on a vector, for 0 <= from and
\* to <= Len(): Get(j) is sliceFor(j)[j & 31] and sliceFor(j) is one array for
\* the 32 indices of a block (Range hoists it the same way), so the elements
\* are read a block at a time. ok = FALSE when some Get would panic.
RECURSIVE GetRange(_, _, _, _)
GetRange(H, v, from, to) ==
  IF from >= to THEN [ok |-> TRUE, elems |-> <<>>]
  ELSE IF Shr(from, shiftSize) = Shr(to - 1, shiftSize)
    THEN LET s == sliceFor(H, v, from)
         IN IF s = Nil \/ Len(H.nodes[s]) < Mask(to - 1) + 1
            THEN [ok |-> FALSE, elems |-> <<>>]
            ELSE [ok |-> TRUE, elems |-> SubSeq(H.nodes[s], Mask(from) + 1, Mask(to - 1) + 1)]
    ELSE LET mid == Shl((Shr(from, shiftSize) + Shr(to - 1, shiftSize) + 1) \div 2, shiftSize)
             lo == GetRange(H, v, from, mid)
             hi == GetRange(H, v, mid, to)
         IN [ok |-> lo.ok /\ hi.ok, elems |-> lo.elems \o hi.elems]
\* What a client reads through a vector handle: Len() and every Get(j).
VecRead(H, va) ==
  LET r == GetRange(H, H.vecs[va], 0, VLen(H, va))
  IN [len |-> VLen(H, va), ok |-> r.ok, elems |-> r.elems]
\* The same through a view: Get(i) is the backing vector's Get(start + i).
ViewRead(H, s) ==
  LET from == uintMax(s.start, 0)
      to == uintMin(s.stop, VLen(H, s.vector))
      r == GetRange(H, H.vecs[s.vector], from, to)
  IN [len |-> SLen(s), ok |-> r.ok /\ from = s.start /\ to = s.stop, elems |-> r.elems]

\* ------------------------------------------------------------------ driver
\* The client program: it holds the newest vector (cur), the newest view (sv)
\* and the newest map (m), and calls one method per step. last records the call:
\* receiver, arguments, whether it returned (ok) or panicked, and its result.
Items(n, seed) == SubSeq([k \in 1..n |-> ((seed + k) % ValMod) + 1], 1, n)
\* A value no Items list contains.
SetVal == ValMod + 1

InitLens ==
  {0, 3, nodeSize, nodeSize * nodeSize + nodeSize, 2 * nodeSize * nodeSize + nodeSize}
AppendLens == {0, 1, nodeSize + 2}
IndexArgs(len) == {-1, 0, len - 1, len}
\* The call on which the visitor of Range returns false (0: on none).
RangeStops == {0, 1, 2, nodeSize + 1}
SliceArgs(len, tailOff) ==
  {<<-1, 0>>, <<1, 0>>, <<0, len + 1>>, <<0, len>>, <<1, len - 1>>, <<0, tailOff - 1>>}

Heap == MkHeap(nodes, vecs, maps)

NoArgs == [i |-> 0, x |-> 0, items |-> <<>>, start |-> 0, stop |-> 0, key |-> 0, k |-> 0]
LastRec(op, recv, args, ok, res) ==
  [op |-> op, recv |-> recv, args |-> args, ok |-> ok, res |-> res]

\* A call in progress: the method, receiver and arguments, the allocations
\* and writes it makes (log) and the next of them (at), and what it returns.
Procs == 1..MaxProcs
Idle ==
  [pc |-> "idle", op |-> "", recv |-> Nil, args |-> NoArgs, log |-> <<>>, at |-> 1,
   ok |-> TRUE, res |-> Nil, expect |-> Nil]
NoProcs == SubSeq([p \in Procs |-> Idle], 1, MaxProcs)

\* A constructor or method that returns a vector (a: its outcome).
VecResult(op, args, a, counted) ==
  /\ nodes' = a.h.nodes
  /\ vecs' = a.h.vecs
  /\ cur' = IF a.h.ok THEN a.r ELSE cur
  /\ pubV' = IF a.h.ok THEN pubV \cup {a.r} ELSE pubV
  /\ last' = LastRec(op, cur, args, a.h.ok, a.r)
  /\ steps' = IF a.h.ok \/ counted THEN steps + 1 ELSE steps

VecStart(items, nv) ==
  /\ nodes = nv.h.nodes
  /\ vecs = nv.h.vecs
  /\ views = <<>>
  /\ maps = <<>>
  /\ pubV = {nv.r}
  /\ pubM = {}
  /\ cur = nv.r
  /\ sv = Nil
  /\ m = Nil
  /\ ref = <<>>
  /\ last = LastRec("NewVector", Nil, [NoArgs EXCEPT !.items = items], TRUE, nv.r)
  /\ steps = 0
  /\ procs = NoProcs

Init == \E n \in InitLens : VecStart(Items(n, 0), NewVector(EmptyHeap, Items(n, 0)))

CallVAppend ==
  /\ cur # Nil
  /\ steps < MaxOps
  /\ \E n \in AppendLens :
       VecResult("VAppend", [NoArgs EXCEPT !.items = Items(n, vecs[cur].len + 2)],
                 VAppend(Heap, cur, Items(n, vecs[cur].len + 2)), TRUE)
  /\ UNCHANGED <<views, sv>>
  /\ UNCHANGED mapSide

CallVSet ==
  /\ cur # Nil
  /\ steps < MaxOps
  /\ \E i \in IndexArgs(vecs[cur].len) :
       VecResult("VSet", [NoArgs EXCEPT !.i = i, !.x = SetVal],
                 VSet(Heap, cur, i, SetVal), FALSE)
  /\ UNCHANGED <<views, sv>>
  /\ UNCHANGED mapSide

CallVGet ==
  /\ cur # Nil
  /\ \E i \in IndexArgs(vecs[cur].len) :
       LET g == VGet(Heap, cur, i)
       IN last' = LastRec("VGet", cur, [NoArgs EXCEPT !.i = i],
                          g.ok, g.val)
  /\ UNCHANGED <<nodes, vecs, steps>>
  /\ UNCHANGED vecSide
  /\ UNCHANGED mapSide

CallVSlice ==
  /\ cur # Nil
  /\ steps < MaxOps
  /\ \E p \in SliceArgs(vecs[cur].len, tailOffset(vecs[cur])) :
       LET sl == VSlice(Heap, cur, p[1], p[2])
       IN /\ views' = IF sl.ok THEN Append(views, sl.s) ELSE views
          /\ sv' = IF sl.ok THEN Len(views) + 1 ELSE sv
          /\ last' = LastRec("VSlice", cur, [NoArgs EXCEPT !.start = p[1], !.stop = p[2]],
                             sl.ok, IF sl.ok THEN Len(views) + 1 ELSE Nil)
          /\ steps' = IF sl.ok THEN steps + 1 ELSE steps
  /\ UNCHANGED <<nodes, vecs, pubV, cur>>
  /\ UNCHANGED mapSide

CallSGet ==
  /\ sv # Nil
  /\ \E i \in IndexArgs(SLen(views[sv])) :
       LET g == SGet(Heap, views[sv], i)
       IN last' = LastRec("SGet", sv, [NoArgs EXCEPT !.i = i], g.ok, g.val)
  /\ UNCHANGED <<nodes, vecs, steps>>
  /\ UNCHANGED vecSide
  /\ UNCHANGED mapSide

\* A view method that returns a view: the new struct is allocated in views.
ViewResult(op, args, a) ==
  /\ nodes' = a.h.nodes
  /\ vecs' = a.h.vecs
  /\ views' = IF a.h.ok THEN Append(views, a.s) ELSE views
  /\ sv' = IF a.h.ok THEN Len(views) + 1 ELSE sv
  /\ pubV' = IF a.h.ok THEN pubV \cup {a.s.vector} ELSE pubV
  /\ last' = LastRec(op, sv, args, a.h.ok, IF a.h.ok THEN Len(views) + 1 ELSE Nil)
  /\ steps' = IF a.h.nodes # nodes \/ a.h.ok THEN steps + 1 ELSE steps

CallSSet ==
  /\ steps < MaxOps
  /\ sv # Nil
  /\ \E i \in IndexArgs(SLen(views[sv])) :
       ViewResult("SSet", [NoArgs EXCEPT !.i = i, !.x = SetVal],
                  SSet(Heap, views[sv], i, SetVal))
  /\ UNCHANGED cur
  /\ UNCHANGED mapSide

CallSAppend ==
  /\ steps < MaxOps
  /\ sv # Nil
  /\ \E n \in AppendLens :
       LET items == Items(n, views[sv].stop + 2)
       IN ViewResult("SAppend", [NoArgs EXCEPT !.items = items],
                     SAppend(Heap, views[sv], items))
  /\ UNCHANGED cur
  /\ UNCHANGED mapSide

CallSSlice ==
  /\ steps < MaxOps
  /\ sv # Nil
  /\ \E p \in SliceArgs(SLen(views[sv]), 0) :
       LET sl == SSlice(views[sv], p[1], p[2])
       IN ViewResult("SSlice", [NoArgs EXCEPT !.start = p[1], !.stop = p[2]],
                     [h |-> IF sl.ok THEN Heap ELSE Panic(Heap), s |-> sl.s])
  /\ UNCHANGED cur
  /\ UNCHANGED mapSide

Next ==
  \/ CallVAppend
  \/ CallVSet
  \/ CallVGet
  \/ CallVSlice
  \/ CallSGet
  \/ CallSSet
  \/ CallSAppend
  \/ CallSSlice

Spec == Init /\ [][Next]_vars

\* -------------------------------------------------------------- map driver
Keys == 1..MaxKey
ValOf(k) == (k % MaxVal) + 1
\* The keys the client calls with: the first and a middle key of the
\* construction, and two keys the construction never stores.
OpKeys == {1, MaxKey \div 2, MaxKey - 1, MaxKey}

\* The reference association: the value of every key, Nil for a key that is
\* not present (the values stored are 1..MaxVal).
NoRef == [k \in Keys |-> Nil]
RefKeys(r) == {k \in Keys : r[k] # Nil}
RefStore(r, k, v) == [x \in Keys |-> IF x = k THEN v ELSE r[x]]
RefDelete(r, k) == [x \in Keys |-> IF x = k THEN Nil ELSE r[x]]
RECURSIVE RefOfItems(_, _)
RefOfItems(r, items) ==
  IF items = <<>> THEN r
  ELSE RefOfItems(RefStore(r, Head(items).Key, Head(items).Value), Tail(items))

\* What a client reads through a map handle: Len() and Load(k) of every key.
MapRead(H, ma) == [len |-> MLen(H, ma), loads |-> [k \in Keys |-> MLoad(H, ma, k)]]
RefRead(r) ==
  [len |-> Cardinality(RefKeys(r)),
   loads |-> [k \in Keys |-> IF k \in RefKeys(r)
                             THEN [ok |-> TRUE, value |-> r[k], found |-> TRUE]
                             ELSE NotFound]]

\* Construction: a constructor call, then (as the loops of
\* TestLargeInsertLookupDelete do) Store of the keys 1..stores and Delete of
\* the keys 1..deletes, in rising or in falling order.
DistinctItems(n) == [k \in 1..n |-> MapItem(k, ValOf(k))]
DupItems == <<MapItem(1, 1), MapItem(2, 1), MapItem(1, 2), MapItem(1, 1), MapItem(2, 2)>>
Reverse(q) == [k \in 1..Len(q) |-> q[Len(q) + 1 - k]]
Construction(ctor, items, stores, deletes, falling) ==
  [ctor |-> ctor, items |-> items, stores |-> stores, deletes |-> deletes, falling |-> falling]
MapInits ==
  {Construction("NewMap", <<>>, p[1], p[2], p[3]) :
     p \in {<<0, 0, FALSE>>,
            <<upperMapLoadFactor - 1, 0, FALSE>>,
            <<upperMapLoadFactor, 0, FALSE>>,
            <<upperMapLoadFactor + 1, 0, FALSE>>,
            <<upperMapLoadFactor + 1, upperMapLoadFactor + 1 - 2 * lowerMapLoadFactor, FALSE>>,
            <<upperMapLoadFactor + 1, upperMapLoadFactor + 1, FALSE>>,
            <<upperMapLoadFactor + 1, upperMapLoadFactor + 1, TRUE>>}}
  \cup {Construction("NewMap", DistinctItems(initialMapLoadFactor), 0, 0, FALSE),
        Construction("NewMap", DupItems, 0, 0, FALSE),
        Construction("NewMapFromNativeMap", DistinctItems(3), 0, 0, FALSE),
        Construction("NewMapFromNativeMap", Reverse(DistinctItems(3)), 0, 0, FALSE)}

\* [h, r, ref] after the calls of script on map r: a sequence of
\* [op, key, value] with op "Store" or "Delete".
RECURSIVE RunScript(_, _, _, _)
RunRest(a, r, script) == RunScript(a.h, a.r, r, script)
RunScript(H, ma, r, script) ==
  IF script = <<>> \/ ~H.ok THEN [h |-> H, r |-> ma, ref |-> r]
  ELSE LET c == Head(script)
       IN RunRest(IF c.op = "Store" THEN MStore(H, ma, c.key, c.value)
                  ELSE MDelete(H, ma, c.key),
                  IF c.op = "Store" THEN RefStore(r, c.key, c.value) ELSE RefDelete(r, c.key),
                  Tail(script))
ScriptOf(c) ==
  [k \in 1..c.stores |-> [op |-> "Store", key |-> k, value |-> ValOf(k)]]
    \o [k \in 1..c.deletes |->
          [op |-> "Delete", key |-> IF c.falling THEN c.deletes + 1 - k ELSE k, value |-> 0]]
ConstructRest(nm, c) ==
  IF ~nm.h.ok THEN [h |-> nm.h, r |-> Nil, ref |-> NoRef]
  ELSE RunScript(nm.h, nm.r, RefOfItems(NoRef, c.items), ScriptOf(c))
Construct(c) ==
  ConstructRest(IF c.ctor = "NewMap" THEN NewMap(EmptyHeap, c.items)
                ELSE NewMapFromNativeMap(EmptyHeap, c.items), c)

MapStart(c, b) ==
  /\ nodes = b.h.nodes
  /\ vecs = b.h.vecs
  /\ maps = b.h.maps
  /\ views = <<>>
  /\ pubV = {}
  /\ pubM = IF b.h.ok THEN {b.r} ELSE {}
  /\ cur = Nil
  /\ sv = Nil
  /\ m = IF b.h.ok THEN b.r ELSE Nil
  /\ ref = b.ref
  /\ last = LastRec(c.ctor, Nil, [NoArgs EXCEPT !.items = c.items], b.h.ok,
                    IF b.h.ok THEN b.r ELSE Nil)
  /\ steps = 0
  /\ procs = NoProcs

MapInit == \E c \in MapInits : MapStart(c, Construct(c))

\* A map method that returns a map.
MapResult(op, args, a, r) ==
  /\ nodes' = a.h.nodes
  /\ vecs' = a.h.vecs
  /\ maps' = a.h.maps
  /\ m' = IF a.h.ok THEN a.r ELSE m
  /\ pubM' = IF a.h.ok THEN pubM \cup {a.r} ELSE pubM
  /\ ref' = IF a.h.ok THEN r ELSE ref
  /\ last' = LastRec(op, m, args, a.h.ok, a.r)
  /\ steps' = steps + 1
  /\ UNCHANGED procs

CallStore ==
  /\ steps < MaxOps
  /\ m # Nil
  /\ \E k \in OpKeys, v \in 1..MaxVal :
       MapResult("MStore", [NoArgs EXCEPT !.key = k, !.x = v], MStore(Heap, m, k, v),
                 RefStore(ref, k, v))
  /\ UNCHANGED vecSide

CallDelete ==
  /\ steps < MaxOps
  /\ m # Nil
  /\ \E k \in OpKeys :
       MapResult("MDelete", [NoArgs EXCEPT !.key = k], MDelete(Heap, m, k),
                 RefDelete(ref, k))
  /\ UNCHANGED vecSide

CallLoad ==
  /\ m # Nil
  /\ \E k \in OpKeys :
       LET l == MLoad(Heap, m, k)
       IN last' = LastRec("MLoad", m, [NoArgs EXCEPT !.key = k], l.ok, l)
  /\ UNCHANGED <<nodes, vecs, steps>>
  /\ UNCHANGED vecSide
  /\ UNCHANGED mapSide

MapNext ==
  \/ CallStore
  \/ CallDelete
  \/ CallLoad

MapSpec == MapInit /\ [][MapNext]_vars

\* ------------------------------------------------------------ range driver
\* The client of vectors, views and maps that also calls Range.
\* Range reads only: the call is recorded with the arguments its visitor got.
RangeResult(op, recv, k, run) ==
  /\ last' = LastRec(op, recv, [NoArgs EXCEPT !.k = k], run.ok, run.f.calls)
  /\ UNCHANGED <<nodes, vecs, steps>>
  /\ UNCHANGED vecSide
  /\ UNCHANGED mapSide

CallVRange ==
  /\ cur # Nil
  /\ \E k \in RangeStops :
       RangeResult("VRange", cur, k, VRangeRun(Heap, cur, Visitor("elem", k)))

CallSRange ==
  /\ sv # Nil
  /\ \E k \in RangeStops :
       RangeResult("SRange", sv, k, SRangeRun(Heap, views[sv], Visitor("elem", k)))

CallMRange ==
  /\ m # Nil
  /\ \E k \in RangeStops :
       RangeResult("MRange", m, k, MRangeRun(Heap, m, Visitor("bucket", k)))

\* Vectors that are empty, tail only, one full tail, and two internal levels
\* with a partly filled tail.
RangeLens == {0, 3, nodeSize, nodeSize * nodeSize + nodeSize + 3}
RangeInit ==
  \/ \E n \in RangeLens : VecStart(Items(n, 0), NewVector(EmptyHeap, Items(n, 0)))
  \/ MapInit
\* The calls that make new handles, and Range on the newest of each.
RangeNext ==
  \/ CallVAppend
  \/ CallVSet
  \/ CallVSlice
  \/ CallSSet
  \/ CallSAppend
  \/ CallSSlice
  \/ CallStore
  \/ CallDelete
  \/ CallVRange
  \/ CallSRange
  \/ CallMRange

RangeSpec == RangeInit /\ [][RangeNext]_vars


\* ------------------------------------------------------------------ claims
\* The claims about a call are action formulas: the receiver is read in the
\* heap before the call (Heap) and the result in the heap after it (HeapP).
HeapP == MkHeap(nodes', vecs', maps')
IsIndex(i, len) == 0 <= i /\ i < len
Read(len, elems) == [len |-> len, ok |-> TRUE, elems |-> elems]
\* Get and the read of a handle agree at the ends of the vector and at both
\* sides of the tail boundary.
ProbeIdx(v) == {0, v.len - 1, tailOffset(v) - 1, tailOffset(v)}
GetAgrees(H, va, rd) ==
  \A i \in ProbeIdx(H.vecs[va]) :
    VGet(H, va, i) = IF IsIndex(i, rd.len) THEN Val(rd.elems[i + 1])
                     ELSE [ok |-> FALSE, val |-> Nil]
SGetAgrees(H, s, rd) ==
  \A i \in {-1, 0, SLen(s) - 1, SLen(s)} :
    SGet(H, s, i) = IF IsIndex(i, rd.len) THEN Val(rd.elems[i + 1])
                    ELSE [ok |-> FALSE, val |-> Nil]

\* C1 - persistence of the vector: a Set or Append through a vector handle
\* leaves Len() and every Get(j) of every vector handle handed out so far (the
\* receiver among them) as it was before the call.
C1_Persistence ==
  [][
    last'.op \in {"VSet", "VAppend"} =>
      \A h \in pubV :
        /\ VecRead(HeapP, h) = VecRead(Heap, h)
        /\ GetAgrees(HeapP, h, VecRead(Heap, h))
  ]_vars
\* An Append that flushed the full tail and grew the trie by one level.
C1_Witness ==
  /\ last.op = "VAppend"
  /\ last.ok
  /\ vecs[last.res].shift > vecs[last.recv].shift

\* C2 - append law: Append returns, and the result has the receiver's
\* elements followed by the items.
C2_AppendLaw ==
  [][
    last'.op = "VAppend" =>
      /\ last'.ok
      /\ LET items == last'.args.items
             old == VecRead(Heap, cur)
             new == VecRead(HeapP, last'.res)
         IN /\ old.ok
            /\ new = Read(old.len + Len(items), old.elems \o items)
            /\ GetAgrees(HeapP, last'.res, new)
  ]_vars
\* An Append that panicked: the receiver has two internal levels and a root
\* that a Set below the tail offset has padded to nodeSize entries.
C2_Panic ==
  /\ last.op = "VAppend"
  /\ ~last.ok
  /\ vecs[last.recv].shift = 2 * shiftSize
  /\ Len(nodes[vecs[last.recv].root]) = nodeSize
  /\ vecs[last.recv].len < nodeSize * nodeSize * nodeSize

\* C3 - index law: Set at a valid index returns a vector (a view) of the same
\* length (window) that reads item at i and the receiver's value everywhere
\* else; the receiving view and its backing vector read as before.
C3_IndexLaw ==
  [][
    /\ (last'.op = "VSet" /\ IsIndex(last'.args.i, VLen(Heap, cur))) =>
         /\ last'.ok
         /\ LET old == VecRead(Heap, cur)
                new == VecRead(HeapP, last'.res)
            IN /\ old.ok
               /\ new = [old EXCEPT !.elems[last'.args.i + 1] = last'.args.x]
               /\ VGet(HeapP, last'.res, last'.args.i) = Val(last'.args.x)
               /\ GetAgrees(HeapP, last'.res, new)
    /\ (last'.op = "SSet" /\ IsIndex(last'.args.i, SLen(views[sv]))) =>
         /\ last'.ok
         /\ LET s == views[sv]
                t == views'[last'.res]
                old == ViewRead(Heap, s)
                new == ViewRead(HeapP, t)
            IN /\ t.start = s.start
               /\ t.stop = s.stop
               /\ old.ok
               /\ new = [old EXCEPT !.elems[last'.args.i + 1] = last'.args.x]
               /\ SGet(HeapP, t, last'.args.i) = Val(last'.args.x)
               /\ SGetAgrees(HeapP, t, new)
               /\ ViewRead(HeapP, s) = old
               /\ VecRead(HeapP, s.vector) = VecRead(Heap, s.vector)
  ]_vars
\* A Set through a view that starts past 0, at a position kept in the trie of
\* a backing vector with two internal levels.
C3_Witness ==
  /\ last.op = "SSet"
  /\ last.ok
  /\ views[last.recv].start > 0
  /\ views[last.recv].start + last.args.i < tailOffset(vecs[views[last.recv].vector])
  /\ vecs[views[last.recv].vector].shift > shiftSize

\* C6 - view append: Append on a view returns a view that reads the receiver's
\* elements followed by the items; the receiving view and its backing vector
\* read as before.
C6_ViewAppend ==
  [][
    last'.op = "SAppend" =>
      /\ last'.ok
      /\ LET s == views[sv]
             t == views'[last'.res]
             items == last'.args.items
             old == ViewRead(Heap, s)
             new == ViewRead(HeapP, t)
         IN /\ old.ok
            /\ new = Read(old.len + Len(items), old.elems \o items)
            /\ SGetAgrees(HeapP, t, new)
            /\ ViewRead(HeapP, s) = old
            /\ VecRead(HeapP, s.vector) = VecRead(Heap, s.vector)
  ]_vars
\* An Append on a view that panicked, on a view whose stop lies below the
\* tail offset of its backing vector.
C6_Panic ==
  /\ last.op = "SAppend"
  /\ ~last.ok
  /\ views[last.recv].stop < tailOffset(vecs[views[last.recv].vector])

NothingNew ==
  /\ nodes' = nodes
  /\ vecs' = vecs
  /\ views' = views
  /\ cur' = cur
  /\ sv' = sv

\* C7 - index bounds: Get and Set at i < 0 or i >= Len() panic, on a vector
\* and on a view (whose Len() is stop - start); nothing is allocated and no
\* handle changes.
C7_IndexBounds ==
  [][
    /\ (last'.op \in {"VGet", "VSet"} /\ ~IsIndex(last'.args.i, VLen(Heap, cur))) =>
         ~last'.ok /\ NothingNew
    /\ (last'.op \in {"SGet", "SSet"} /\ ~IsIndex(last'.args.i, SLen(views[sv]))) =>
         ~last'.ok /\ NothingNew
  ]_vars
\* Get(Len()) on a view whose stop lies inside the backing vector.
C7_Witness ==
  /\ last.op = "SGet"
  /\ ~last.ok
  /\ last.args.i = SLen(views[last.recv])
  /\ views[last.recv].start + last.args.i < vecs[views[last.recv].vector].len

BadWindow(start, stop, len) == start < 0 \/ start > stop \/ stop > len

\* C8 - slice window: Slice(start, stop) panics when start < 0, start > stop
\* or stop > Len() of the receiver and makes no view; otherwise it returns a
\* view of stop - start elements reading the receiver's Get(start + i), and
\* allocates no node and no vector.
C8_SliceWindow ==
  [][
    /\ last'.op = "VSlice" =>
         LET a == last'.args.start
             b == last'.args.stop
             old == VecRead(Heap, cur)
         IN IF BadWindow(a, b, VLen(Heap, cur))
            THEN ~last'.ok /\ NothingNew
            ELSE /\ last'.ok
                 /\ nodes' = nodes /\ vecs' = vecs
                 /\ old.ok
                 /\ LET new == ViewRead(HeapP, views'[last'.res])
                    IN /\ new = Read(b - a, SubSeq(old.elems, a + 1, b))
                       /\ SGetAgrees(HeapP, views'[last'.res], new)
    /\ last'.op = "SSlice" =>
         LET a == last'.args.start
             b == last'.args.stop
             s == views[sv]
             old == ViewRead(Heap, s)
         IN IF BadWindow(a, b, SLen(s))
            THEN ~last'.ok /\ NothingNew
            ELSE /\ last'.ok
                 /\ nodes' = nodes /\ vecs' = vecs
                 /\ old.ok
                 /\ ViewRead(HeapP, s) = old
                 /\ LET new == ViewRead(HeapP, views'[last'.res])
                    IN /\ new = Read(b - a, SubSeq(old.elems, a + 1, b))
                       /\ SGetAgrees(HeapP, views'[last'.res], new)
  ]_vars
\* Slice on a view refused for stop > Len() although the window lies inside
\* the backing vector.
C8_Witness ==
  /\ last.op = "SSlice"
  /\ ~last.ok
  /\ last.args.start = 0
  /\ last.args.stop > SLen(views[last.recv])
  /\ views[last.recv].start + last.args.stop <= vecs[views[last.recv].vector].len

\* ------------------------------------------------------------- map claims

\* C4 - the map is a finite association: after any run of Store and Delete,
\* Len() and Load(k) of every key are those of the reference association, and
\* every Store and Delete returns.
C4_MapAgrees ==
  /\ last.op \in {"NewMap", "NewMapFromNativeMap", "MStore", "MDelete"} => last.ok
  /\ m # Nil => MapRead(Heap, m) = RefRead(ref)
\* A Delete that rehashed into fewer buckets.
C4_Witness ==
  /\ last.op = "MDelete"
  /\ last.ok
  /\ ref # NoRef
  /\ BucketVectorLen(Heap, last.res) < BucketVectorLen(Heap, last.recv)

\* C5 - persistence of the map: a Store or Delete leaves Len() and Load(k) of
\* every map handle handed out so far (the receiver among them) as it was.
C5_MapPersistence ==
  [][
    last'.op \in {"MStore", "MDelete"} =>
      \A h \in pubM : MapRead(HeapP, h) = MapRead(Heap, h)
  ]_vars
\* A Store of a key the receiver holds, on a receiver at the upper load limit:
\* the result is rehashed into more buckets.
C5_Witness ==
  /\ last.op = "MStore"
  /\ last.ok
  /\ MLen(Heap, last.recv) = upperMapLoadFactor
  /\ MLen(Heap, last.res) = upperMapLoadFactor
  /\ MLoad(Heap, last.recv, last.args.key).found
  /\ MLoad(Heap, last.recv, last.args.key).value # last.args.x
  /\ BucketVectorLen(Heap, last.res) > BucketVectorLen(Heap, last.recv)

\* C9 - Load never fails: the bucket vector of every map handle has at least
\* one bucket, Load of any key returns, and Load of a key that is not in the
\* map returns (nil, false), whether the bucket is nil, empty or holds others.
C9_LoadTotal ==
  /\ \A h \in pubM :
       /\ BucketVectorLen(Heap, h) >= 1
       /\ \A k \in Keys : MLoad(Heap, h, k).ok
  /\ m # Nil => \A k \in Keys \ RefKeys(ref) : MLoad(Heap, m, k) = NotFound
  /\ last.op = "MLoad" => last.ok
  /\ last.op \in {"NewMap", "NewMapFromNativeMap"} => last.ok
\* A Load from a map whose only bucket a Delete has set to nil.
C9_Witness ==
  /\ last.op = "MLoad"
  /\ last.res = NotFound
  /\ steps > 0
  /\ MLen(Heap, m) = 0
  /\ VGet(Heap, maps[m].backingVector, 0) = [ok |-> TRUE, val |-> Nil]

\* C10 - Delete of a key that is not in the map returns the receiver itself:
\* no map and no vector is made, and nothing is rehashed.
C10_DeleteAbsent ==
  [][
    (last'.op = "MDelete" /\ ~MLoad(Heap, m, last'.args.key).found) =>
      /\ last'.ok
      /\ last'.res = m
      /\ m' = m
      /\ maps' = maps
      /\ vecs' = vecs
  ]_vars
\* A Delete of an absent key on a map below the lower load limit, whose bucket
\* for the key holds other items.
C10_Witness ==
  /\ last.op = "MDelete"
  /\ last.res = last.recv
  /\ last.args.key \notin RefKeys(ref)
  /\ BucketVectorLen(Heap, m) > 1
  /\ MLen(Heap, m) < BucketVectorLen(Heap, m) * lowerMapLoadFactor
  /\ VGet(Heap, maps[m].backingVector, pos(Heap, m, last.args.key)).val # Nil

\* ------------------------------------------------------------- tall driver
\* The client on vectors up to three internal levels: empty, a short tail,
\* and with a full tail one leaf, a full root of one level, two levels, and
\* two levels with the last leaf and with every leaf in place.
TallLens ==
  {0, 3, nodeSize,
   nodeSize * nodeSize + nodeSize,
   2 * nodeSize * nodeSize + nodeSize,
   nodeSize * nodeSize * nodeSize,
   nodeSize * nodeSize * nodeSize + nodeSize}
TallInit == \E n \in TallLens : VecStart(Items(n, 0), NewVector(EmptyHeap, Items(n, 0)))
TallNext ==
  \/ CallVAppend
  \/ CallVSet
  \/ CallVGet

TallSpec == TallInit /\ [][TallNext]_vars

\* ------------------------------------------------------- concurrent driver
\* Processes that call methods of handles already returned, one allocation or
\* write at a time and interleaved in any order. A call works on the memory
\* the allocator hands it when it starts: what it allocates lies beyond
\* everything allocated or handed out so far, still empty, and is filled by
\* its steps. Its steps are the allocations and writes of its code in order.
Pad(n, x) == SubSeq([k \in 1..n |-> x], 1, n)
WithProc(p, rec) == SubSeq([q \in Procs |-> IF q = p THEN rec ELSE procs[q]], 1, MaxProcs)

\* Process p starts a call; a is what the code does from here, expect what the
\* caller would read from its result.
ConcStart(p, op, recv, args, a, expect) ==
  /\ nodes' = nodes \o Pad(Len(a.h.nodes) - Len(nodes), <<>>)
  /\ vecs' = vecs \o Pad(Len(a.h.vecs) - Len(vecs), MkVector(Nil, Nil, 0, 0))
  /\ maps' = maps \o Pad(Len(a.h.maps) - Len(maps), MkMap(Nil, 0))
  /\ procs' = WithProc(p, [pc |-> "run", op |-> op, recv |-> recv, args |-> args,
                           log |-> a.h.log, at |-> 1, ok |-> a.h.ok, res |-> a.r,
                           expect |-> expect])
  /\ steps' = steps + 1
  /\ UNCHANGED <<views, pubV, pubM, cur, sv, m, ref, last>>

\* A reader starts: it makes no allocation and no write.
ConcRead(p, op, recv, args, expect) ==
  ConcStart(p, op, recv, args, [h |-> Heap, r |-> Nil], expect)

\* What a caller reads from the vector or the map a call returned.
ReadVec(a) == IF a.h.ok THEN VecRead(a.h, a.r) ELSE Read(0, <<>>)
ReadMap(a) == IF a.h.ok THEN MapRead(a.h, a.r) ELSE MapRead(a.h, m)

\* The value a process writes: its own.
ProcVal(p) == ValMod + p

StartVAppend(p) ==
  /\ cur # Nil
  /\ steps < MaxOps
  /\ procs[p].pc = "idle"
  /\ \E h \in pubV, n \in {1, nodeSize + 2} :
       ConcStart(p, "VAppend", h, [NoArgs EXCEPT !.items = Pad(n, ProcVal(p))],
                 VAppend(Heap, h, Pad(n, ProcVal(p))),
                 ReadVec(VAppend(Heap, h, Pad(n, ProcVal(p)))))

StartVSet(p) ==
  /\ cur # Nil
  /\ steps < MaxOps
  /\ procs[p].pc = "idle"
  /\ \E h \in pubV, i \in {0, vecs[cur].len - 1} :
       ConcStart(p, "VSet", h, [NoArgs EXCEPT !.i = i, !.x = ProcVal(p)],
                 VSet(Heap, h, i, ProcVal(p)), ReadVec(VSet(Heap, h, i, ProcVal(p))))

StartVGet(p) ==
  /\ cur # Nil
  /\ steps < MaxOps
  /\ procs[p].pc = "idle"
  /\ \E h \in pubV, i \in {0, vecs[cur].len - 1} :
       ConcRead(p, "VGet", h, [NoArgs EXCEPT !.i = i], VGet(Heap, h, i))

StartVRange(p) ==
  /\ cur # Nil
  /\ steps < MaxOps
  /\ procs[p].pc = "idle"
  /\ \E h \in pubV :
       ConcRead(p, "VRange", h, NoArgs, VRange(Heap, h, 0))

StartStore(p) ==
  /\ m # Nil
  /\ steps < MaxOps
  /\ procs[p].pc = "idle"
  /\ \E h \in pubM, k \in {1, MaxKey} :
       ConcStart(p, "MStore", h, [NoArgs EXCEPT !.key = k, !.x = ProcVal(p)],
                 MStore(Heap, h, k, ProcVal(p)), ReadMap(MStore(Heap, h, k, ProcVal(p))))

StartDelete(p) ==
  /\ m # Nil
  /\ steps < MaxOps
  /\ procs[p].pc = "idle"
  /\ \E h \in pubM, k \in {1, upperMapLoadFactor + 1} :
       ConcStart(p, "MDelete", h, [NoArgs EXCEPT !.key = k],
                 MDelete(Heap, h, k), ReadMap(MDelete(Heap, h, k)))

StartLoad(p) ==
  /\ m # Nil
  /\ steps < MaxOps
  /\ procs[p].pc = "idle"
  /\ \E h \in pubM, k \in {1, MaxKey} :
       ConcRead(p, "MLoad", h, [NoArgs EXCEPT !.key = k], MLoad(Heap, h, k))

\* The memory after the allocation or write e.
Applied(e) ==
  /\ nodes' = IF e.kind = "node" THEN [nodes EXCEPT ![e.addr] = e.val]
              ELSE IF e.kind = "entry" THEN [nodes EXCEPT ![e.addr][e.idx] = e.val]
              ELSE IF e.kind = "grow" THEN [nodes EXCEPT ![e.addr] = Append(@, e.val)]
              ELSE nodes
  /\ vecs' = IF e.kind = "vec" THEN [vecs EXCEPT ![e.addr] = e.val]
             ELSE IF e.kind = "tail" THEN [vecs EXCEPT ![e.addr].tail = e.val]
             ELSE vecs
  /\ maps' = IF e.kind = "map" THEN [maps EXCEPT ![e.addr] = e.val] ELSE maps

\* Process p makes the next allocation or write of its call.
ConcStep(p) ==
  /\ procs[p].pc = "run"
  /\ procs[p].at <= Len(procs[p].log)
  /\ Applied(procs[p].log[procs[p].at])
  /\ procs' = WithProc(p, [procs[p] EXCEPT !.at = @ + 1])
  /\ UNCHANGED <<views, pubV, pubM, cur, sv, m, ref, last, steps>>

\* What a reader returns: it reads now.
ReadNow(c) ==
  IF c.op = "VGet" THEN VGet(Heap, c.recv, c.args.i)
  ELSE IF c.op = "VRange" THEN VRange(Heap, c.recv, 0)
  ELSE MLoad(Heap, c.recv, c.args.key)

\* The call of process p returns: its result is handed to the caller.
ConcReturn(p) ==
  /\ procs[p].pc = "run"
  /\ procs[p].at > Len(procs[p].log)
  /\ pubV' = IF procs[p].op \in {"VAppend", "VSet"} /\ procs[p].ok
             THEN pubV \cup {procs[p].res} ELSE pubV
  /\ pubM' = IF procs[p].op \in {"MStore", "MDelete"} /\ procs[p].ok
             THEN pubM \cup {procs[p].res} ELSE pubM
  /\ last' = LastRec(procs[p].op, procs[p].recv, procs[p].args, procs[p].ok,
                     IF procs[p].op \in {"VGet", "VRange", "MLoad"}
                     THEN ReadNow(procs[p]) ELSE procs[p].res)
  /\ procs' = WithProc(p, Idle)
  /\ UNCHANGED <<nodes, vecs, views, maps, cur, sv, m, ref, steps>>

\* The handles the processes start from: a vector with a short tail, one with
\* a leaf and a full tail, and one with two internal levels; a map that the
\* next new key makes grow, and one that the next Delete makes shrink.
ConcLens == {3, 2 * nodeSize, nodeSize * nodeSize + 2 * nodeSize}
ConcMaps ==
  {Construction("NewMap", <<>>, upperMapLoadFactor, 0, FALSE),
   Construction("NewMap", <<>>, upperMapLoadFactor + 1,
                upperMapLoadFactor + 1 - 2 * lowerMapLoadFactor, FALSE)}
ConcInit ==
  \/ \E n \in ConcLens : VecStart(Items(n, 0), NewVector(EmptyHeap, Items(n, 0)))
  \/ \E c \in ConcMaps : MapStart(c, Construct(c))
ConcNext ==
  \E p \in Procs :
    \/ StartVAppend(p)
    \/ StartVSet(p)
    \/ StartVGet(p)
    \/ StartVRange(p)
    \/ StartStore(p)
    \/ StartDelete(p)
    \/ StartLoad(p)
    \/ ConcStep(p)
    \/ ConcReturn(p)

ConcSpec == ConcInit /\ [][ConcNext]_vars

\* ------------------------------------------------------------ range claims
\* The number of calls Range makes on n elements when the visitor returns
\* false on its k-th call.
Expected(k, n) == IF k = 0 \/ k > n THEN n ELSE k

\* C11 - Range order and cancellation: Range on a vector passes the elements
\* at the indices 0, 1, ... to the visitor in that order, each once, and on a
\* view those of its window, whatever its start; Range on a map passes every
\* stored key once, with its value; when the visitor returns false on its k-th
\* call, exactly k calls are made.
C11_RangeOrder ==
  [][
    /\ last'.op = "VRange" =>
         LET rd == VecRead(Heap, cur)
         IN /\ rd.ok
            /\ last'.ok
            /\ last'.res = SubSeq(rd.elems, 1, Expected(last'.args.k, rd.len))
    /\ last'.op = "SRange" =>
         LET rd == ViewRead(Heap, views[sv])
         IN /\ rd.ok
            /\ last'.ok
            /\ last'.res = SubSeq(rd.elems, 1, Expected(last'.args.k, rd.len))
    /\ last'.op = "MRange" =>
         LET calls == last'.res
         IN /\ last'.ok
            /\ Len(calls) = Expected(last'.args.k, Cardinality(RefKeys(ref)))
            /\ \A p \in 1..Len(calls) :
                 /\ calls[p].Key \in RefKeys(ref)
                 /\ calls[p].Value = ref[calls[p].Key]
                 /\ \A q \in 1..Len(calls) : calls[q].Key = calls[p].Key => q = p
  ]_vars
\* A Range on a view that starts inside a leaf, which the visitor stops in the
\* next leaf.
C11_Witness ==
  /\ last.op = "SRange"
  /\ last.ok
  /\ Mask(views[last.recv].start) # 0
  /\ last.args.k = nodeSize + 1
  /\ Len(last.res) = nodeSize + 1
  /\ SLen(views[last.recv]) > nodeSize + 1
\* A Range on a map of several keys that the visitor stops at its second call.
C11_MapWitness ==
  /\ last.op = "MRange"
  /\ last.args.k = 2
  /\ Len(last.res) = 2
  /\ MLen(Heap, last.recv) > 2

\* ----------------------------------------------------------- layout claims
FullTail(v) == v.len > 0 /\ v.len - tailOffset(v) = nodeSize
\* An Append that flushes the receiver's tail, and no other.
OneFlush ==
  /\ last'.op = "VAppend"
  /\ FullTail(vecs[cur])
  /\ Len(last'.args.items) \in 1..nodeSize
\* The height has grown: the root of w has two children, the root of v and a
\* path to the tail of v, which is now the leaf of its indices.
Grown(v, w) ==
  /\ w.shift = v.shift + shiftSize
  /\ Len(nodes'[w.root]) = 2
  /\ nodes'[w.root][1] = v.root
  /\ descend(HeapP, w.root, w.shift, v.len - nodeSize) = v.tail
\* The height is the same: the root of w is a new node, the root of v is as it
\* was, and the tail of v is the leaf of its indices under the root of w.
PathCopied(v, w) ==
  /\ w.shift = v.shift
  /\ w.root > Len(nodes)
  /\ nodes'[v.root] = nodes[v.root]
  /\ descend(HeapP, w.root, w.shift, v.len - nodeSize) = v.tail
\* What a flush does, given whether the root overflows.
FlushLaw(overflow) ==
  OneFlush =>
    IF overflow THEN last'.ok /\ Grown(vecs[cur], vecs'[last'.res])
    ELSE last'.ok => PathCopied(vecs[cur], vecs'[last'.res])

\* C12 - root overflow rule, as amended: a flush grows the trie height exactly
\* when the length right-shifted by shiftSize exceeds 1 << shift; in every
\* other flush shift is unchanged and the leaf goes under a copy of the path
\* from the existing root.
C12_RootOverflow ==
  [][FlushLaw(Shr(vecs[cur].len, shiftSize) > Shl(1, vecs[cur].shift))]_vars
\* C12 as stated: the length is right-shifted by shift.
C12_ShiftByShift ==
  [][FlushLaw(Shr(vecs[cur].len, vecs[cur].shift) > Shl(1, vecs[cur].shift))]_vars
\* A flush that grew the height from two internal levels to three.
C12_Witness ==
  /\ last.op = "VAppend"
  /\ last.ok
  /\ Len(last.args.items) = 1
  /\ vecs[last.recv].shift = 2 * shiftSize
  /\ vecs[last.recv].len = nodeSize * nodeSize * nodeSize + nodeSize
  /\ vecs[last.res].shift = 3 * shiftSize

\* The number of leaves under node, a node of the trie at level (0: a leaf),
\* counting the children from position p on.
RECURSIVE Leaves(_, _, _, _)
Leaves(H, node, level, p) ==
  IF level = 0 THEN 1
  ELSE IF p > Len(H.nodes[node]) THEN 0
  ELSE (IF H.nodes[node][p] = Nil THEN 0
        ELSE Leaves(H, H.nodes[node][p], level - shiftSize, 1))
       + Leaves(H, node, level, p + 1)
\* The layout of one vector.
Partition(H, v) ==
  LET t == tailOffset(v)
  IN /\ v.len < nodeSize => t = 0
     /\ v.len >= nodeSize => t % nodeSize = 0 /\ t <= v.len - 1 /\ v.len - 1 < t + nodeSize
     /\ Len(H.nodes[v.tail]) = v.len - t
     /\ v.len > 0 => v.len - t \in 1..nodeSize
     /\ v.shift > 0 /\ v.shift % shiftSize = 0
     /\ \A b \in 0..(t \div nodeSize - 1) :
          LET leaf == descend(H, v.root, v.shift, b * nodeSize)
          IN leaf # Nil /\ Len(H.nodes[leaf]) = nodeSize
     /\ Leaves(H, v.root, v.shift, 1) = t \div nodeSize

\* C13 - tail/trie partition: in every vector handed out, tailOffset is 0 below
\* nodeSize elements and else the largest multiple of nodeSize at or below
\* len - 1; the tail holds the len - tailOffset elements from tailOffset on
\* (1 to nodeSize of them unless the vector is empty); every index below
\* tailOffset leads from the root through present children to a leaf of
\* nodeSize elements; shift is a positive multiple of shiftSize; and the trie
\* has no leaf for an index at or beyond tailOffset.
C13_Partition == \A h \in pubV : Partition(Heap, vecs[h])
\* A vector made by Set below the tail offset: its root is a copy padded to
\* nodeSize entries, nil where the receiver's root had no child.
C13_Witness ==
  /\ last.op = "VSet"
  /\ last.ok
  /\ vecs[last.res].shift = 2 * shiftSize
  /\ Len(nodes[vecs[last.res].root]) = nodeSize
  /\ nodes[vecs[last.res].root][nodeSize] = Nil
  /\ tailOffset(vecs[last.res]) > 0

\* The buckets of a map: what Get returns at every position of its backing
\* vector (Nil: no bucket).
Buckets(H, ma) == VecRead(H, H.maps[ma].backingVector).elems
\* The (position, place in the bucket) pairs of the items of a map.
Places(H, bs) ==
  {pl \in (1..Len(bs)) \X (1..MaxKey + 1) : bs[pl[1]] # Nil /\ pl[2] <= Len(H.nodes[bs[pl[1]]])}
KeyAt(H, bs, pl) == H.nodes[bs[pl[1]]][pl[2]].Key
BucketsOk(H, ma) ==
  LET bs == Buckets(H, ma)
      places == Places(H, bs)
  IN /\ Len(bs) = BucketVectorLen(H, ma)
     /\ \A b \in 1..Len(bs) : bs[b] # Nil => Len(H.nodes[bs[b]]) \in 1..MaxKey
     /\ MLen(H, ma) = Cardinality(places)
     /\ MLen(H, ma) = Cardinality({KeyAt(H, bs, pl) : pl \in places})
     /\ \A pl \in places, ql \in places : KeyAt(H, bs, pl) = KeyAt(H, bs, ql) => pl = ql
     /\ \A pl \in places : genericHash(KeyAt(H, bs, pl)) % Len(bs) = pl[1] - 1

\* C14 - map bucket invariant: in every map handed out, Len() is the number of
\* items in the buckets and the number of distinct keys; no key is in a bucket
\* twice or in two buckets; every key is in the bucket at genericHash(key) mod
\* the length of the bucket vector; and every bucket is nil or has an item.
C14_Buckets ==
  /\ \A h \in pubM : BucketsOk(Heap, h)
  /\ m # Nil => MLen(Heap, m) = Cardinality(RefKeys(ref))
\* A Delete that took the only item of a bucket, in a map that kept its
\* bucket vector.
C14_Witness ==
  /\ last.op = "MDelete"
  /\ last.ok
  /\ MLen(Heap, last.recv) = 1
  /\ MLen(Heap, last.res) = 0
  /\ maps[last.res].backingVector # maps[last.recv].backingVector
  /\ Buckets(Heap, last.res) = <<Nil>>
\* A Store that rehashed into more buckets.
C14_Grown ==
  /\ last.op = "MStore"
  /\ last.ok
  /\ BucketVectorLen(Heap, last.res) > BucketVectorLen(Heap, last.recv)
  /\ MLen(Heap, last.res) > upperMapLoadFactor

\* ------------------------------------------------------- concurrency claims
\* The arrays a caller can reach through a handle it was handed: the trie
\* below node at level, the trie and the tail of a vector, and those of the
\* backing vector of a map together with its buckets.
RECURSIVE TrieNodes(_, _, _)
TrieNodes(H, node, level) ==
  IF node = Nil THEN {}
  ELSE IF level = 0 THEN {node}
  ELSE {node} \cup UNION {TrieNodes(H, H.nodes[node][i], level - shiftSize) :
                            i \in 1..Len(H.nodes[node])}
VecNodes(H, va) ==
  {H.vecs[va].tail} \cup TrieNodes(H, H.vecs[va].root, H.vecs[va].shift)
MapNodes(H, ma) ==
  VecNodes(H, H.maps[ma].backingVector)
    \cup ({Buckets(H, ma)[i] : i \in 1..Len(Buckets(H, ma))} \ {Nil})
\* The structs and arrays reachable from the handles handed out so far.
SharedVecs == pubV \cup {maps[h].backingVector : h \in pubM}
SharedNodes ==
  UNION {VecNodes(Heap, h) : h \in pubV} \cup UNION {MapNodes(Heap, h) : h \in pubM}
\* The allocation or write e touches nothing a handed-out handle reaches.
Private(e) ==
  /\ e.kind \in {"node", "entry", "grow"} => e.addr \notin SharedNodes
  /\ e.kind \in {"vec", "tail"} => e.addr \notin SharedVecs
  /\ e.kind = "map" => e.addr \notin pubM
\* What the call c returns, as its caller reads it once it has returned.
Obtained(c, res) ==
  IF c.op \in {"VAppend", "VSet"} THEN VecRead(HeapP, res)
  ELSE IF c.op \in {"MStore", "MDelete"} THEN MapRead(HeapP, res)
  ELSE res
\* The update of the call c is in what it returned.
Present(c, res) ==
  /\ c.op = "VSet" => VGet(HeapP, res, c.args.i).val = c.args.x
  /\ c.op = "VAppend" =>
       /\ VLen(HeapP, res) = VLen(Heap, c.recv) + Len(c.args.items)
       /\ VGet(HeapP, res, VLen(HeapP, res) - 1).val = c.args.items[Len(c.args.items)]
  /\ c.op = "MStore" => MLoad(HeapP, res, c.args.key).value = c.args.x
  /\ c.op = "MDelete" => ~MLoad(HeapP, res, c.args.key).found

\* C15 - concurrent calls without coordination: when processes call Set,
\* Append, Store, Delete, Get, Load and Range on handles handed out, their
\* allocations and writes interleaved one at a time in any order, no step
\* writes to a struct, node, tail or bucket reachable from a handle already
\* returned; every handle handed out reads the same after every step; and each
\* call returns what it would have returned running alone, its update in it.
C15_Isolation ==
  [][
    \A p \in Procs :
      /\ (procs[p].pc = "run" /\ procs'[p].at = procs[p].at + 1) =>
           /\ Private(procs[p].log[procs[p].at])
           /\ \A h \in pubV : VecRead(HeapP, h) = VecRead(Heap, h)
           /\ \A h \in pubM : MapRead(HeapP, h) = MapRead(Heap, h)
      /\ (procs[p].pc = "run" /\ procs'[p].pc = "idle" /\ procs[p].ok) =>
           /\ Obtained(procs[p], last'.res) = procs[p].expect
           /\ Present(procs[p], last'.res)
           /\ \A h \in pubV : VecRead(HeapP, h) = VecRead(Heap, h)
           /\ \A h \in pubM : MapRead(HeapP, h) = MapRead(Heap, h)
  ]_vars
\* One process has returned from a mutator while another is in the middle of
\* the steps of a mutator on the same receiver.
C15_Witness ==
  /\ last.op \in {"VAppend", "VSet", "MStore", "MDelete"}
  /\ last.ok
  /\ \E q \in Procs :
       /\ procs[q].pc = "run"
       /\ procs[q].op \in {"VAppend", "VSet", "MStore", "MDelete"}
       /\ procs[q].recv = last.recv
       /\ 1 < procs[q].at
       /\ procs[q].at <= Len(procs[q].log)

====
